---- MODULE Spec2Model ----
(***************************************************************************)
(* A model of the retrieval pipeline of docu-chat-ai: the vector search    *)
(* (models/Chunk.js), the retriever and the ingestion run                  *)
(* (services/embeddingService.js), the message pipeline and the citation   *)
(* extractor (services/chatService.js) and the legacy query handler        *)
(* (controllers/chatController.js).                                        *)
(*                                                                         *)
(* Conventions.  A missing number (null, undefined, 0) is written Null, a  *)
(* missing string "".  An answer text is a sequence of tokens; the token   *)
(* "[Document " stands for those ten characters, "x" for any character     *)
(* that is neither a digit, a colon, a comma nor the start of "[Document ".*)
(* An embedding vector is a direction in the plane, a multiple of 60       *)
(* degrees, and similarities are cosines scaled by 100.                    *)
(* sequelize.query is taken to resolve to [rows, metadata], which is what  *)
(* the destructuring in Chunk.findSimilar expects.                         *)
(***************************************************************************)
EXTENDS Integers, Sequences, FiniteSets, TLC

VARIABLES
  documents,          \* the Documents table: id -> [orgId, folderId, tags, status, title]
  chunks,             \* the Chunks table (the vector index), in insertion order
  folders,            \* the Folders table: id -> [orgId, parentId]
  searchInvoked,      \* Chunk.findSimilar has been called by the operation in progress
  searchOptions,      \* the embedding and options of the last Chunk.findSimilar call
  responseText,       \* the generated answer handed to extractCitations
  relevantDocuments,  \* the passages handed to generatePrompt / extractCitations
  citations,          \* what extractCitations returned
  error,              \* the error the operation in progress threw ("" when none)
  query,              \* the request in progress: handler, user, thread, folder, tags
  queryEmbedding,     \* the vector generateEmbedding returned for the question
  embeddingFailed,    \* the external embedding call failed for the question
  generation,         \* the generative call: "none", "ok" or "failed"
  messages,           \* the messages saved by the request in progress
  runs,               \* the ingestion runs: document, position, chunk tasks
  pageTexts,          \* splitTextIntoChunks: the pages of the text, each a list of words
  targetChunkSize,    \* splitTextIntoChunks: the target token count of a chunk
  overlap,            \* splitTextIntoChunks: the overlap fraction [num, den]
  splitChunks,        \* what splitTextIntoChunks returned, or has pushed so far
  cursor,             \* splitTextIntoChunks: pageIndex and startTokenIndex of the loops
  messageRows,        \* the Messages table, in the order of createdAt
  promptMessages,     \* the messages processMessage hands to the generative call
  pc                  \* the position of the operation in progress

corpusVars == <<documents, chunks, folders>>
searchVars == <<searchInvoked, searchOptions>>
citeVars == <<responseText, relevantDocuments, citations, error>>
splitVars == <<pageTexts, targetChunkSize, overlap, splitChunks, cursor>>
histVars == <<messageRows, promptMessages>>
pipeVars == <<query, queryEmbedding, embeddingFailed, generation, messages, runs>>
vars == <<documents, chunks, folders, searchInvoked, searchOptions,
          responseText, relevantDocuments, citations, error,
          query, queryEmbedding, embeddingFailed, generation, messages, runs,
          pageTexts, targetChunkSize, overlap, splitChunks, cursor,
          messageRows, promptMessages, pc>>

Null == 0

\* ------------------------------------------------------------------ bounds
MaxFragments == 3   \* fragments an answer text is put together from
MaxPassages == 2    \* passages handed to the extractor
MaxRows == 3        \* rows of the vector index when the search is checked alone
MaxLimit == 2       \* the LIMIT of a search checked alone
MaxRuns == 2        \* ingestion runs in one behaviour
MaxChunksPerRun == 2  \* chunks the text of one ingestion run is split into
MaxPages == 2       \* pages of a text given to the chunker
MaxPageTokens == 7  \* tokens of a page
MaxTarget == 5      \* the target chunk size
MaxMessages == 12   \* rows of the Messages table before a question is asked
MaxCited == 2       \* labels of the prompt an answer cites
MaxFolders == 3     \* folders of the Folders table

\* ------------------------------------------------------- small helper sets
Min(a, b) == IF a < b THEN a ELSE b

SeqsUpTo(S, n) == UNION {[1..k -> S] : k \in 0..n}

IsInjective(s) == \A i, j \in DOMAIN s : s[i] = s[j] => i = j

\* ------------------------------------------------------------ vector index
\* unit vectors at multiples of 60 degrees; the cosine of two of them, times 100
Dirs == 1..6

CosTable == <<100, 50, -50, -100, -50, 50>>

Cosine(a, b) == CosTable[((a - b) % 6) + 1]

NoDocuments == <<>>

NoFolders == <<>>

\* one root folder, which the documents of the search and of ingestion are in
OneFolder == [f \in {1} |-> [orgId |-> 1, parentId |-> Null]]

NoQuery == [handler |-> "none", userId |-> Null, threadId |-> Null,
            folderId |-> Null, tags |-> {}]

\* the request variables at rest
PipeIdle ==
  /\ query = NoQuery
  /\ queryEmbedding = Null
  /\ embeddingFailed = FALSE
  /\ generation = "none"
  /\ messages = <<>>
  /\ runs = <<>>

\* the chunker's variables at rest
SplitIdle ==
  /\ pageTexts = <<>>
  /\ targetChunkSize = 1
  /\ overlap = [num |-> 0, den |-> 1]
  /\ splitChunks = <<>>
  /\ cursor = [pageIndex |-> 0, startTokenIndex |-> 0]

\* the history variables at rest
HistIdle ==
  /\ messageRows = <<>>
  /\ promptMessages = <<>>

NoSearch ==
  [embedding |-> Null, limit |-> 0, threshold |-> 0, documentIds |-> {}, orgId |-> Null]

\* 1 - ("Chunks"."embedding" <=> ?): <=> is the cosine distance
similarity(row, embedding) == Cosine(row.embedding, embedding)

\* a plausible slip: the distance itself is compared with the threshold
DistanceAtLeast(sim, threshold) == 100 - sim >= threshold

\* WHERE 1 - ("Chunks"."embedding" <=> ?) >= ?
MeetsThreshold(sim, threshold) == sim >= threshold

\* AND "Chunks"."documentId" IN (?), added only for a non-empty list
InDocumentIds(id, documentIds) == documentIds # {} => id \in documentIds

\* AND "Documents"."orgId" = ?, added only for an orgId that is set
InOrg(id, orgId) == orgId # Null => documents[id].orgId = orgId

\* the indices of the rows the WHERE clause and the INNER JOIN keep
SelectedRows(embedding, options) ==
  {i \in DOMAIN chunks :
     /\ chunks[i].documentId \in DOMAIN documents
     /\ MeetsThreshold(similarity(chunks[i], embedding), options.threshold)
     /\ InDocumentIds(chunks[i].documentId, options.documentIds)
     /\ InOrg(chunks[i].documentId, options.orgId)}

\* ORDER BY "similarity" ASC
RECURSIVE OrderBySimilarityAsc(_, _)
OrderBySimilarityAsc(S, embedding) ==
  IF S = {} THEN {<<>>}
  ELSE LET bottom == {i \in S : \A j \in S :
                        similarity(chunks[i], embedding) <= similarity(chunks[j], embedding)}
       IN UNION {{<<i>> \o r : r \in OrderBySimilarityAsc(S \ {i}, embedding)} : i \in bottom}

\* ORDER BY "similarity" DESC: the rows of S in any order the database may
\* produce; rows of equal similarity come in an order SQL leaves unspecified
RECURSIVE OrderBySimilarityDesc(_, _)
OrderBySimilarityDesc(S, embedding) ==
  IF S = {} THEN {<<>>}
  ELSE LET top == {i \in S : \A j \in S :
                     similarity(chunks[i], embedding) >= similarity(chunks[j], embedding)}
       IN UNION {{<<i>> \o r : r \in OrderBySimilarityDesc(S \ {i}, embedding)} : i \in top}

\* a row of the result: "Chunks".*, "Documents"."title", the similarity
ResultRow(i, embedding) ==
  [id |-> chunks[i].id,
   documentId |-> chunks[i].documentId,
   documentTitle |-> documents[chunks[i].documentId].title,
   page |-> chunks[i].page,
   similarity |-> similarity(chunks[i], embedding)]

\* Chunk.findSimilar: the result lists the query may return
findSimilar(embedding, options) ==
  {[k \in 1..Min(options.limit, Len(r)) |-> ResultRow(r[k], embedding)] :
     r \in OrderBySimilarityDesc(SelectedRows(embedding, options), embedding)}

\* ------------------------------------------- specification of the search alone
SearchDocuments ==
  [d \in {1, 2} |->
     [orgId |-> d, folderId |-> 1, tags |-> {}, status |-> "ready", title |-> "Report",
      deletedAt |-> Null]]

IndexDirs == {1, 2, 4, 6}

IndexContents ==
  UNION {{[i \in 1..n |-> [id |-> i, documentId |-> d[i], embedding |-> e[i], page |-> 1]] :
            d \in [1..n -> DOMAIN SearchDocuments], e \in [1..n -> IndexDirs]} :
         n \in 0..MaxRows}

QueryDirs == {1, 2}

Thresholds == {-100, 25, 100}

SearchInit ==
  /\ documents = SearchDocuments
  /\ folders = OneFolder
  /\ chunks \in IndexContents
  /\ searchInvoked = FALSE
  /\ searchOptions = NoSearch
  /\ relevantDocuments = <<>>
  /\ responseText = <<>>
  /\ citations = <<>>
  /\ error = ""
  /\ PipeIdle
  /\ SplitIdle
  /\ HistIdle
  /\ pc = "idle"

Search ==
  \E embedding \in QueryDirs, limit \in 1..MaxLimit, threshold \in Thresholds,
     documentIds \in {{}, {1}}, orgId \in {Null, 1} :
    LET options == [embedding |-> embedding, limit |-> limit, threshold |-> threshold,
                    documentIds |-> documentIds, orgId |-> orgId]
    IN /\ pc = "idle"
       /\ searchInvoked' = TRUE
       /\ searchOptions' = options
       /\ relevantDocuments' \in findSimilar(embedding, options)
       /\ pc' = "done"
       /\ UNCHANGED <<splitVars, histVars, corpusVars, responseText, citations, error, pipeVars>>

SearchNext == Search

SpecSearch == SearchInit /\ [][SearchNext]_vars

\* the row of the index a passage was read from
ChunkOf(passage) == CHOOSE i \in DOMAIN chunks : chunks[i].id = passage.id

\* the rows of the index eligible for the search made: of a document of the
\* organisation and of the allow-list, where the options give one, and with a
\* similarity of at least the threshold
EligibleRows ==
  {i \in DOMAIN chunks :
     /\ searchOptions.orgId # Null =>
          documents[chunks[i].documentId].orgId = searchOptions.orgId
     /\ searchOptions.documentIds # {} =>
          chunks[i].documentId \in searchOptions.documentIds
     /\ Cosine(chunks[i].embedding, searchOptions.embedding) >= searchOptions.threshold}

ReturnedRows == {ChunkOf(relevantDocuments[k]) : k \in DOMAIN relevantDocuments}

ThresholdExclusion ==
  searchInvoked =>
    \A k \in DOMAIN relevantDocuments :
      /\ relevantDocuments[k].similarity >= searchOptions.threshold
      /\ Cosine(chunks[ChunkOf(relevantDocuments[k])].embedding, searchOptions.embedding)
           >= searchOptions.threshold

\* a search that returned a passage and left out, with room to spare under its
\* limit, a row of the same scope whose similarity is below the threshold
ThresholdExclusionWitness ==
  /\ searchInvoked
  /\ Len(relevantDocuments) = 1
  /\ searchOptions.limit > 1
  /\ searchOptions.orgId = Null /\ searchOptions.documentIds = {}
  /\ \E i \in DOMAIN chunks :
       Cosine(chunks[i].embedding, searchOptions.embedding) < searchOptions.threshold

\* C7: the result of a search is ordered by similarity descending, and passages
\* of equal similarity by insertion order (so that repeating the search on the
\* same index returns the same list).
RankedWithStableTies ==
  searchInvoked =>
    \A k \in DOMAIN relevantDocuments : \A l \in DOMAIN relevantDocuments :
      k < l =>
        \/ relevantDocuments[k].similarity > relevantDocuments[l].similarity
        \/ /\ relevantDocuments[k].similarity = relevantDocuments[l].similarity
           /\ ChunkOf(relevantDocuments[k]) < ChunkOf(relevantDocuments[l])

\* --------------------------------------------------------- citation extractor
Digits == {"0", "1", "2", "3"}

Alphabet == {"[Document ", ":", ",", "x"} \cup Digits

DigitVal(t) == CASE t = "0" -> 0 [] t = "1" -> 1 [] t = "2" -> 2 [] t = "3" -> 3

\* parseInt of a run of decimal digits text[from..to]
RECURSIVE parseInt(_, _, _)
parseInt(text, from, to) ==
  IF to < from THEN 0
  ELSE 10 * parseInt(text, from, to - 1) + DigitVal(text[to])

\* the last index of the maximal run of digits starting at i (i - 1 when none)
RECURSIVE DigitRunEnd(_, _)
DigitRunEnd(text, i) ==
  IF i <= Len(text) /\ text[i] \in Digits THEN DigitRunEnd(text, i + 1) ELSE i - 1

\* /\[Document (\d+):/ matches at index i: the index of its closing colon, or Null
citationRegex(text, i) ==
  IF i <= Len(text) /\ text[i] = "[Document "
  THEN LET e == DigitRunEnd(text, i + 1)
       IN IF e >= i + 1 /\ e + 1 <= Len(text) /\ text[e + 1] = ":" THEN e + 1 ELSE Null
  ELSE Null

\* a plausible slip: the lower bound of the index check is forgotten
InRangeNoLowerBound(documentIndex, docs) == documentIndex < Len(docs)

InRange(documentIndex, docs) == documentIndex >= 0 /\ documentIndex < Len(docs)

\* a plausible slip: a document already cited, by any of its chunks, is skipped
existingCitationOfDocument(cits, document) ==
  \E k \in DOMAIN cits : cits[k].documentId = document.documentId

\* citations.find(c => c.chunkId === document.id)
existingCitation(cits, document) ==
  \E k \in DOMAIN cits : cits[k].chunkId = document.id

\* a plausible slip: the new citation is put in front of the list
unshift(cits, c) == <<c>> \o cits

\* citations.push({...})
push(cits, c) == Append(cits, c)

Citation(document) ==
  [chunkId |-> document.id,
   documentId |-> document.documentId,
   documentTitle |-> IF document.documentTitle = "" THEN "Untitled"
                     ELSE document.documentTitle,
   page |-> IF document.page = Null THEN 1 ELSE document.page,
   similarity |-> document.similarity]

\* one iteration of the while loop, for a match whose ordinal is n; r is the
\* citations so far, and whether a TypeError was thrown
CiteStep(r, n, docs) ==
  LET documentIndex == n - 1
      cits == r.citations
  IN IF InRange(documentIndex, docs)
     THEN IF documentIndex + 1 \in DOMAIN docs
          THEN LET document == docs[documentIndex + 1]
               IN IF existingCitation(cits, document)
                  THEN r
                  ELSE [r EXCEPT !.citations = push(cits, Citation(document))]
          ELSE [r EXCEPT !.threw = TRUE]   \* document is undefined: document.id throws
     ELSE r

\* the while loop over citationRegex.exec, lastIndex = i
RECURSIVE ScanCitations(_, _, _, _)
ScanCitations(text, i, docs, r) ==
  IF r.threw \/ i > Len(text) THEN r
  ELSE LET close == citationRegex(text, i)
       IN IF close = Null
          THEN ScanCitations(text, i + 1, docs, r)
          ELSE ScanCitations(text, close + 1, docs,
                             CiteStep(r, parseInt(text, i + 1, close - 1), docs))

extractCitations(response, docs) ==
  ScanCitations(response, 1, docs, [threw |-> FALSE, citations |-> <<>>])

\* ------------------------------------------------- passages of the extractor
\* chunk rows as Chunk.findSimilar returns them; rows 1 and 2 are chunks of the
\* same document, row 3 has neither a title nor a page
PassagePool ==
  { [id |-> 1, documentId |-> 1, documentTitle |-> "Report", page |-> 1, similarity |-> 100],
    [id |-> 2, documentId |-> 1, documentTitle |-> "Report", page |-> 2, similarity |-> 50],
    [id |-> 3, documentId |-> 2, documentTitle |-> "", page |-> Null, similarity |-> 50] }

PassageLists == {s \in SeqsUpTo(PassagePool, MaxPassages) : IsInjective(s)}

\* an answer text is put together from single tokens and from back-references
\* with the ordinals 0, 1, 2 and 12, one of them in the form "[Document 1,"
Reference(digits) == <<"[Document ">> \o digits \o <<":">>

Fragments ==
  {<<t>> : t \in Alphabet} \cup
  {Reference(<<"0">>), Reference(<<"1">>), Reference(<<"2">>), Reference(<<"1", "2">>),
   <<"[Document ", "1", ",">>}

RECURSIVE TextsOf(_)
TextsOf(n) ==
  IF n = 0 THEN {<<>>}
  ELSE LET shorter == TextsOf(n - 1)
       IN shorter \cup {a \o f : a \in shorter, f \in Fragments}

AnswerTexts == TextsOf(MaxFragments)

\* -------------------------------------------- specification of the extractor
CiteInit ==
  /\ responseText \in AnswerTexts
  /\ relevantDocuments \in PassageLists
  /\ citations = <<>>
  /\ error = ""
  /\ pc = "extracting"
  /\ documents = NoDocuments
  /\ folders = NoFolders
  /\ chunks = <<>>
  /\ searchInvoked = FALSE
  /\ searchOptions = NoSearch
  /\ PipeIdle
  /\ SplitIdle
  /\ HistIdle

ExtractCitations ==
  /\ pc = "extracting"
  /\ LET r == extractCitations(responseText, relevantDocuments)
     IN /\ citations' = r.citations
        /\ error' = IF r.threw THEN "TypeError" ELSE ""
        /\ pc' = IF r.threw THEN "errored" ELSE "done"
  /\ UNCHANGED <<splitVars, histVars, responseText, relevantDocuments, corpusVars, searchVars, pipeVars>>

CiteNext == ExtractCitations

SpecCite == CiteInit /\ [][CiteNext]_vars

\* C1: for every answer text and every passage list (with out-of-range ordinals
\* and the empty list among them) the extractor returns without error, and the
\* chunk id of every citation is the id of one of the passages it was given.
CitationSoundness ==
  pc \in {"done", "errored"} =>
    /\ error = ""
    /\ \A k \in DOMAIN citations :
         \E p \in DOMAIN relevantDocuments : citations[k].chunkId = relevantDocuments[p].id

\* an answer citing the ordinals 0, 1 and 12 has been processed with a single
\* passage: the two out-of-range ordinals are ignored, the passage is cited
CitationSoundnessWitness ==
  /\ pc = "done"
  /\ Len(relevantDocuments) = 1
  /\ responseText = Reference(<<"0">>) \o Reference(<<"1">>) \o Reference(<<"1", "2">>)
  /\ Len(citations) = 1
  /\ citations[1].chunkId = relevantDocuments[1].id

\* the ordinal of a reference "[Document N" followed by the token `after` at
\* index i of the text, or Null when there is none at i
OrdinalAt(text, i, after) ==
  IF text[i] = "[Document "
  THEN LET e == DigitRunEnd(text, i + 1)
       IN IF e >= i + 1 /\ e + 1 <= Len(text) /\ text[e + 1] = after
          THEN parseInt(text, i + 1, e) ELSE Null
  ELSE Null

\* C11: when the answer cites a passage as [Document N, Page P], with N from 1
\* to the number of passages, the extractor returns a citation of passage N.
MandatedFormatIsCited ==
  pc \in {"done", "errored"} =>
    \A i \in DOMAIN responseText :
      LET n == OrdinalAt(responseText, i, ",")
      IN n \in DOMAIN relevantDocuments =>
           \E k \in DOMAIN citations : citations[k].chunkId = relevantDocuments[n].id

\* the indices of the answer text at which passage n is cited as [Document n:
Mentions(n) ==
  {i \in DOMAIN responseText : n # Null /\ OrdinalAt(responseText, i, ":") = n}

\* C12: every passage cited in the answer, however often, has exactly one
\* citation, also when another chunk of its document is cited too; no two
\* citations are of the same chunk.
DedupByChunkId ==
  pc = "done" =>
    /\ \A n \in DOMAIN relevantDocuments :
         Mentions(n) # {} =>
           Cardinality({k \in DOMAIN citations :
                          citations[k].chunkId = relevantDocuments[n].id}) = 1
    /\ \A k, l \in DOMAIN citations :
         citations[k].chunkId = citations[l].chunkId => k = l

\* two chunks of one document have been cited, the first of them twice: there
\* are two citations, of the same document and of different chunks
DedupByChunkIdWitness ==
  /\ pc = "done"
  /\ responseText = Reference(<<"1">>) \o Reference(<<"2">>) \o Reference(<<"1">>)
  /\ Len(relevantDocuments) = 2
  /\ relevantDocuments[1].documentId = relevantDocuments[2].documentId
  /\ Len(citations) = 2
  /\ citations[1].chunkId # citations[2].chunkId
  /\ citations[1].documentId = citations[2].documentId

\* the passage a citation is of
PassageOf(c) == CHOOSE n \in DOMAIN relevantDocuments : relevantDocuments[n].id = c.chunkId

FirstMention(n) == CHOOSE i \in Mentions(n) : \A j \in Mentions(n) : i <= j

\* C13: the citations come in the order in which their passages are first
\* mentioned in the answer text.
FirstMentionOrder ==
  pc = "done" =>
    \A k, l \in DOMAIN citations :
      k < l => FirstMention(PassageOf(citations[k])) < FirstMention(PassageOf(citations[l]))

\* the answer mentions passage 2 before passage 1: the citation of passage 2
\* comes first, against the retrieval rank
FirstMentionOrderWitness ==
  /\ pc = "done"
  /\ responseText = Reference(<<"2">>) \o Reference(<<"1">>) \o Reference(<<"2">>)
  /\ Len(relevantDocuments) = 2
  /\ Len(citations) = 2
  /\ citations[1].chunkId = relevantDocuments[2].id
  /\ citations[2].chunkId = relevantDocuments[1].id

\* ------------------------------------------------------------------ corpus
Users == {1, 2, 3}

\* User.findByPk(userId).orgId; the third user's orgId is null (the foreign
\* key of User.belongsTo(Organisation) is nullable)
UserOrg(userId) == IF userId = 3 THEN Null ELSE userId

Threads == {1, 2}

\* Thread.findOne({ where: { id: threadId, userId } }) finds the thread
OwnsThread(userId, threadId) == threadId = userId

Statuses == {"pending", "processing", "ready", "error"}

\* documents 1 and 2 share folder 1 of organisation 1 and the tag "a"; only
\* document 1 bears "b" too; folder 4 is empty
CorpusDocument(d, status) ==
  [orgId |-> IF d = 4 THEN 2 ELSE 1,
   folderId |-> CASE d = 1 -> 1 [] d = 2 -> 1 [] d = 3 -> 2 [] d = 4 -> 3,
   tags |-> CASE d = 1 -> {"a", "b"} [] d = 2 -> {"a"} [] d = 3 -> {} [] d = 4 -> {"b"},
   status |-> status,
   deletedAt |-> Null,
   title |-> IF d = 3 THEN "" ELSE "Report"]

\* folder 2 is a subfolder of folder 1; folder 3 is of organisation 2
CorpusFolders ==
  [f \in 1..4 |-> [orgId |-> IF f = 3 THEN 2 ELSE 1,
                   parentId |-> IF f = 2 THEN 1 ELSE Null]]

Corpora ==
  {[d \in 1..4 |-> CorpusDocument(d, IF d = 4 THEN "ready" ELSE st[d])] :
     st \in [1..3 -> Statuses]}

\* the rows ingestion has inserted: none for a document still pending
CorpusChunks(docs) ==
  LET rows == << [id |-> 1, documentId |-> 1, embedding |-> 1, page |-> 1],
                 [id |-> 2, documentId |-> 1, embedding |-> 4, page |-> 2],
                 [id |-> 3, documentId |-> 2, embedding |-> 2, page |-> 1],
                 [id |-> 4, documentId |-> 3, embedding |-> 6, page |-> Null],
                 [id |-> 5, documentId |-> 4, embedding |-> 1, page |-> 1] >>
  IN SelectSeq(rows, LAMBDA r : docs[r.documentId].status # "pending")

FolderFilters == {Null, 1, 2, 4}

TagFilters == {{}, {"a", "b"}, {"c"}}

\* what the external embedding capability returns for the question
QuestionDir == 1

\* the answers the generative capability is taken to give
ModelAnswers ==
  { <<"x">>,
    <<"[Document ", "1", ":">>,
    <<"[Document ", "2", ":", "x">> }

\* ---------------------------------------------------------------- retriever
\* generateEmbedding: what it returns when the external call returns `vector`
\* (apiOk) or fails; a failure is replaced by a random unit vector, `random`
generateEmbedding(vector, apiOk, random) == IF apiOk THEN vector ELSE random

\* Document.findAll({ where: { folderId, orgId } })
FolderDocuments(orgId, folderId) ==
  {d \in DOMAIN documents :
     /\ documents[d].deletedAt = Null   \* paranoid: true
     /\ documents[d].folderId = folderId /\ documents[d].orgId = orgId}

\* Document.findAll({ where: { orgId, folderId?, tags: { [Op.overlap]: tagArray } } })
TaggedDocuments(orgId, folderId, tags) ==
  {d \in DOMAIN documents :
     /\ documents[d].deletedAt = Null   \* paranoid: true
     /\ documents[d].orgId = orgId
     /\ folderId # Null => documents[d].folderId = folderId
     /\ documents[d].tags \cap tags # {}}

\* a plausible slip: the early returns for an empty list are missing
ResolveScopeNoShortCircuit(orgId, folderId, tags) ==
  LET inFolder == FolderDocuments(orgId, folderId)
      tagged == TaggedDocuments(orgId, folderId, tags)
  IN [empty |-> FALSE,
      documentIds |-> IF tags # {}
                      THEN IF folderId # Null THEN inFolder \cap tagged ELSE tagged
                      ELSE IF folderId # Null THEN inFolder ELSE {}]

\* the scope resolution of findRelevantDocuments: empty when it returns []
\* before the search, else the documentIds of the search options ({}: none set)
ResolveScope(orgId, folderId, tags) ==
  LET inFolder == FolderDocuments(orgId, folderId)
      tagged == TaggedDocuments(orgId, folderId, tags)
      none == [empty |-> TRUE, documentIds |-> {}]
  IN IF folderId # Null /\ inFolder = {} THEN none
     ELSE IF tags # {}
          THEN IF tagged = {} THEN none
               ELSE IF folderId # Null
                    THEN IF inFolder \cap tagged = {} THEN none
                         ELSE [empty |-> FALSE, documentIds |-> inFolder \cap tagged]
                    ELSE [empty |-> FALSE, documentIds |-> tagged]
          ELSE [empty |-> FALSE, documentIds |-> IF folderId # Null THEN inFolder ELSE {}]

similarityThreshold == 25

maxChunks == 8

\* the folder and tags findRelevantDocuments reads from its options: sendQuery
\* passes folderId and tags as the third and fourth argument, so that the
\* options object has neither
OptionFolder(q) == IF q.handler = "processMessage" THEN q.folderId ELSE Null

OptionTags(q) == IF q.handler = "processMessage" THEN q.tags ELSE {}

\* ----------------------------------------------------------- query pipeline
Message(threadId, role, kind, cits) ==
  [threadId |-> threadId, role |-> role, kind |-> kind, citations |-> cits]

\* the catch block of processMessage
Apology(threadId) == Message(threadId, "assistant", "apology", <<>>)

\* the extractCitations of the controller: every chunk becomes a citation
controllerCitations(docs) ==
  [k \in DOMAIN docs |->
     [documentId |-> docs[k].documentId,
      documentName |-> "Unknown Document",
      page |-> docs[k].page]]

Init ==
  /\ documents \in Corpora
  /\ folders = CorpusFolders
  /\ chunks = CorpusChunks(documents)
  /\ searchInvoked = FALSE
  /\ searchOptions = NoSearch
  /\ responseText = <<>>
  /\ relevantDocuments = <<>>
  /\ citations = <<>>
  /\ error = ""
  /\ PipeIdle
  /\ SplitIdle
  /\ HistIdle
  /\ pc = "idle"

\* processMessage up to the call of findRelevantDocuments
StartProcessMessage ==
  \E userId \in Users, threadId \in Threads, folderId \in FolderFilters, tags \in TagFilters :
    /\ pc = "idle"
    /\ query' = [handler |-> "processMessage", userId |-> userId, threadId |-> threadId,
                 folderId |-> folderId, tags |-> tags]
    /\ IF OwnsThread(userId, threadId)
       THEN /\ messages' = <<Message(threadId, "user", "question", <<>>)>>
            /\ error' = ""
            /\ pc' = "embedding"
       ELSE /\ messages' = <<Apology(threadId)>>
            /\ error' = "Thread not found or access denied"
            /\ pc' = "errored"
    /\ UNCHANGED <<splitVars, histVars, corpusVars, searchVars, responseText, relevantDocuments, citations,
                   queryEmbedding, embeddingFailed, generation, runs>>

\* sendQuery up to the call of findRelevantDocuments; a new conversation
StartSendQuery ==
  \E userId \in Users, folderId \in {Null, 1}, tags \in {{}, {"c"}} :
    /\ pc = "idle"
    /\ query' = [handler |-> "sendQuery", userId |-> userId, threadId |-> userId,
                 folderId |-> folderId, tags |-> tags]
    /\ messages' = <<Message(userId, "user", "question", <<>>)>>
    /\ pc' = "embedding"
    /\ UNCHANGED <<splitVars, histVars, corpusVars, searchVars, responseText, relevantDocuments, citations,
                   error, queryEmbedding, embeddingFailed, generation, runs>>

\* findRelevantDocuments: generateEmbedding(query)
EmbedQuery ==
  \E apiFailed \in BOOLEAN, random \in Dirs :
    /\ pc = "embedding"
    /\ queryEmbedding' = generateEmbedding(QuestionDir, ~apiFailed, random)
    /\ embeddingFailed' = apiFailed
    /\ pc' = "retrieving"
    /\ UNCHANGED <<splitVars, histVars, corpusVars, searchVars, citeVars, query, generation, messages, runs>>


\* the rest of findRelevantDocuments and the handler up to the generative call
Retrieve ==
  /\ pc = "retrieving"
  /\ LET orgId == UserOrg(query.userId)
         scope == ResolveScope(orgId, OptionFolder(query), OptionTags(query))
         options == [embedding |-> queryEmbedding,
                     limit |-> maxChunks,
                     threshold |-> similarityThreshold,
                     documentIds |-> scope.documentIds,
                     orgId |-> orgId]
     IN IF scope.empty
        THEN /\ relevantDocuments' = <<>>
             /\ UNCHANGED searchVars
        ELSE /\ searchInvoked' = TRUE
             /\ searchOptions' = options
             /\ relevantDocuments' \in findSimilar(queryEmbedding, options)
  /\ IF query.handler = "sendQuery" /\ relevantDocuments' = <<>>
     THEN \* if (relevantChunks.length === 0): the default response, without the model
          /\ messages' = Append(messages,
                                Message(query.threadId, "assistant", "insufficient", <<>>))
          /\ pc' = "done"
     ELSE /\ messages' = messages
          /\ pc' = "generating"
  /\ UNCHANGED <<splitVars, histVars, corpusVars, responseText, citations, error,
                 query, queryEmbedding, embeddingFailed, generation, runs>>

\* a query of findRelevantDocuments is rejected by the database
RetrieveFails ==
  /\ pc = "retrieving"
  /\ error' = "SequelizeDatabaseError"
  /\ messages' = IF query.handler = "processMessage"
                 THEN Append(messages, Apology(query.threadId)) ELSE messages
  /\ pc' = "errored"
  /\ UNCHANGED <<splitVars, histVars, corpusVars, searchVars, responseText, relevantDocuments, citations,
                 query, queryEmbedding, embeddingFailed, generation, runs>>

\* openai.chat.completions.create resolves
Generate ==
  \E text \in ModelAnswers :
    /\ pc = "generating"
    /\ generation' = "ok"
    /\ responseText' = text
    /\ pc' = "extracting"
    /\ UNCHANGED <<splitVars, histVars, corpusVars, searchVars, relevantDocuments, citations, error,
                   query, queryEmbedding, embeddingFailed, messages, runs>>

\* openai.chat.completions.create rejects: processMessage saves its apology and
\* rethrows; sendQuery goes on with a fallback text
GenerateFails ==
  /\ pc = "generating"
  /\ generation' = "failed"
  /\ IF query.handler = "processMessage"
     THEN /\ error' = "APIError"
          /\ messages' = Append(messages, Apology(query.threadId))
          /\ responseText' = responseText
          /\ pc' = "errored"
     ELSE /\ error' = error
          /\ messages' = messages
          /\ responseText' = <<"x">>
          /\ pc' = "extracting"
  /\ UNCHANGED <<splitVars, histVars, corpusVars, searchVars, relevantDocuments, citations,
                 query, queryEmbedding, embeddingFailed, runs>>

\* extractCitations, saveMessage of the assistant's message, and the reply
Extract ==
  /\ pc = "extracting"
  /\ IF query.handler = "processMessage"
     THEN LET r == extractCitations(responseText, relevantDocuments)
          IN /\ citations' = r.citations
             /\ error' = IF r.threw THEN "TypeError" ELSE ""
             /\ pc' = IF r.threw THEN "errored" ELSE "done"
             /\ messages' = Append(messages,
                              IF r.threw THEN Apology(query.threadId)
                              ELSE Message(query.threadId, "assistant", "generated",
                                           r.citations))
     ELSE /\ citations' = controllerCitations(relevantDocuments)
          /\ error' = error
          /\ pc' = "done"
          /\ messages' = Append(messages,
                           Message(query.threadId, "assistant",
                                   IF generation = "failed" THEN "fallback" ELSE "generated",
                                   controllerCitations(relevantDocuments)))
  /\ UNCHANGED <<splitVars, histVars, corpusVars, searchVars, responseText, relevantDocuments,
                 query, queryEmbedding, embeddingFailed, generation, runs>>

Next ==
  \/ StartProcessMessage
  \/ StartSendQuery
  \/ EmbedQuery
  \/ Retrieve
  \/ RetrieveFails
  \/ Generate
  \/ GenerateFails
  \/ Extract

Spec == Init /\ [][Next]_vars

\* ----------------------------------------------------------------- deletion
\* the time a soft delete writes into deletedAt
Now == 1

\* deleteDocumentEmbeddings: Chunk.destroy({ where: { documentId } })
deleteDocumentEmbeddings(documentId) ==
  SelectSeq(chunks, LAMBDA c : c.documentId # documentId)

\* destroy of a paranoid model: the row stays, deletedAt is set
SoftDelete(docs) ==
  [d \in DOMAIN documents |->
     IF d \in docs THEN [documents[d] EXCEPT !.deletedAt = Now] ELSE documents[d]]

\* Folder.findAll({ where: { parentId: id } })
Subfolders(id) == {f \in DOMAIN folders : folders[f].parentId = id}

\* Document.findAll({ where: { folderId: id } }), a paranoid model
DocumentsIn(id) ==
  {d \in DOMAIN documents : documents[d].folderId = id /\ documents[d].deletedAt = Null}

\* the folders a recursive deleteFolder(id, userId, true) destroys: the folder,
\* when Folder.findOne finds it in the user's organisation, and what the calls
\* for its subfolders destroy
RECURSIVE DestroyedFolders(_, _)
DestroyedFolders(id, orgId) ==
  IF folders[id].orgId # orgId THEN {}
  ELSE {id} \cup UNION {DestroyedFolders(f, orgId) : f \in Subfolders(id)}

\* DELETE /api/documents/:id: getDocumentById, deleteDocumentEmbeddings, then
\* documentService.deleteDocument (document.destroy())
deleteDocument ==
  \E id \in DOMAIN documents, userId \in Users :
    /\ pc = "idle"
    /\ documents[id].orgId = UserOrg(userId)
    /\ documents[id].deletedAt = Null
    /\ chunks' = deleteDocumentEmbeddings(id)
    /\ documents' = SoftDelete({id})
    /\ UNCHANGED <<splitVars, histVars, folders, searchVars, citeVars, pipeVars, pc>>

\* DELETE /api/documents/folders/:id: getFolderById, documentService.deleteFolder
deleteFolder ==
  \E id \in DOMAIN folders, userId \in Users, recursive \in BOOLEAN :
    /\ pc = "idle"
    /\ folders[id].orgId = UserOrg(userId)
    /\ recursive \/ (Subfolders(id) = {} /\ DocumentsIn(id) = {})
    /\ LET destroyed == IF recursive THEN DestroyedFolders(id, UserOrg(userId)) ELSE {id}
       IN /\ documents' = SoftDelete(UNION {DocumentsIn(f) : f \in destroyed})
          /\ folders' = [f \in DOMAIN folders \ destroyed |-> folders[f]]
    /\ UNCHANGED <<splitVars, histVars, chunks, searchVars, citeVars, pipeVars, pc>>

\* every document is ready, and the requests are served one after the other
DeleteInit ==
  /\ Init
  /\ \A d \in DOMAIN documents : documents[d].status = "ready"

DeleteNext ==
  \/ deleteDocument
  \/ deleteFolder
  \/ Next

SpecDelete == DeleteInit /\ [][DeleteNext]_vars

\* C14: once a document is deleted, by the deletion of the document or by the
\* recursive deletion of a folder it is in, the index holds no chunk of it and
\* the passages of a retrieval made afterwards are of other documents.
DeletionCascades ==
  \A d \in DOMAIN documents :
    documents[d].deletedAt # Null =>
      /\ \A i \in DOMAIN chunks : chunks[i].documentId # d
      /\ \A k \in DOMAIN relevantDocuments : relevantDocuments[k].documentId # d

\* ------------------------------------------------------------- folder tree
\* Folder.findOne({ where: { id, orgId } }) finds the folder
FolderOfOrg(id, orgId) == id \in DOMAIN folders /\ folders[id].orgId = orgId

\* a check of the direct parent only
isChildFolder(folderId, ancestorId) ==
  /\ folderId # Null
  /\ folderId \in DOMAIN folders
  /\ folders[folderId].parentId = ancestorId

\* isDescendantFolder: up the parents of folderId until ancestorId or the root
RECURSIVE isDescendantFolder(_, _)
isDescendantFolder(folderId, ancestorId) ==
  IF folderId = Null THEN FALSE
  ELSE IF folderId \notin DOMAIN folders THEN FALSE
  ELSE IF folders[folderId].parentId = ancestorId THEN TRUE
  ELSE isDescendantFolder(folders[folderId].parentId, ancestorId)

FolderInit ==
  /\ documents = NoDocuments
  /\ folders = NoFolders
  /\ chunks = <<>>
  /\ searchInvoked = FALSE
  /\ searchOptions = NoSearch
  /\ responseText = <<>>
  /\ relevantDocuments = <<>>
  /\ citations = <<>>
  /\ error = ""
  /\ PipeIdle
  /\ SplitIdle
  /\ HistIdle
  /\ pc = "idle"

\* POST /api/documents/folders: createFolder of the service (names are taken
\* to differ, so that the check of the name never fails)
createFolder ==
  \E userId \in Users, parentId \in (1..MaxFolders) \cup {Null} :
    /\ Len(folders) < MaxFolders
    /\ query' = [handler |-> "createFolder", userId |-> userId, id |-> Len(folders) + 1,
                 parentId |-> parentId]
    /\ IF parentId # Null /\ ~FolderOfOrg(parentId, UserOrg(userId))
       THEN /\ error' = "Parent folder not found"
            /\ folders' = folders
       ELSE /\ error' = ""
            /\ folders' = Append(folders, [orgId |-> UserOrg(userId), parentId |-> parentId])
    /\ UNCHANGED <<splitVars, histVars, documents, chunks, searchVars, responseText,
                   relevantDocuments, citations, queryEmbedding, embeddingFailed,
                   generation, messages, runs, pc>>

\* PUT /api/documents/folders/:id with a parentId in the body: getFolderById
\* of the controller has found the folder; updateFolder of the service
updateFolder ==
  \E id \in DOMAIN folders, userId \in Users, parentId \in (1..MaxFolders) \cup {Null} :
    /\ FolderOfOrg(id, UserOrg(userId))
    /\ query' = [handler |-> "updateFolder", userId |-> userId, id |-> id,
                 parentId |-> parentId]
    /\ error' =
         IF parentId # Null /\ parentId # folders[id].parentId
         THEN IF ~FolderOfOrg(parentId, UserOrg(userId)) THEN "Parent folder not found"
              ELSE IF parentId = id THEN "A folder cannot be its own parent"
              ELSE IF isDescendantFolder(parentId, id)
                   THEN "Cannot move a folder to its own descendant"
                   ELSE ""
         ELSE ""
    /\ folders' = IF error' = "" THEN [folders EXCEPT ![id].parentId = parentId] ELSE folders
    /\ UNCHANGED <<splitVars, histVars, documents, chunks, searchVars, responseText,
                   relevantDocuments, citations, queryEmbedding, embeddingFailed,
                   generation, messages, runs, pc>>

FolderNext == createFolder \/ updateFolder

SpecFolders == FolderInit /\ [][FolderNext]_vars

\* the folders reached from f by going up n parents at most
RECURSIVE Up(_, _, _)
Up(fs, f, n) ==
  IF n = 0 \/ f \notin DOMAIN fs THEN {}
  ELSE IF fs[f].parentId = Null THEN {}
  ELSE {fs[f].parentId} \cup Up(fs, fs[f].parentId, n - 1)

Ancestors(fs, f) == Up(fs, f, Len(fs))

Acyclic(fs) == \A f \in DOMAIN fs : f \notin Ancestors(fs, f)

\* C30: after every createFolder and updateFolder the parent relation has no
\* cycle; an update that would make a folder its own parent or the child of
\* one of its descendants ends with an error and changes no parent.
FolderTreeAcyclic ==
  [][/\ Acyclic(folders')
     /\ (/\ query'.handler = "updateFolder"
         /\ query'.parentId \in DOMAIN folders
         /\ \/ query'.parentId = query'.id
            \/ query'.id \in Ancestors(folders, query'.parentId))
          => (error' # "" /\ folders' = folders)]_vars

\* folder 3 is in folder 2 and folder 2 in folder 1; the update that asked to
\* move folder 1 into folder 3 has been rejected
FolderTreeAcyclicWitness ==
  /\ Len(folders) >= 3
  /\ folders[2].parentId = 1 /\ folders[3].parentId = 2 /\ folders[1].parentId = Null
  /\ query.handler = "updateFolder" /\ query.id = 1 /\ query.parentId = 3
  /\ error = "Cannot move a folder to its own descendant"

\* ------------------------------------------------------------------ chunker
\* the words of a page: a page of L tokens is the first L words of this cycle
Words == <<"Hello", "world", ".">>

\* encode of gpt-tokenizer, a word at a time: the id of the token
TokenId(word) ==
  CASE word = "Hello" -> 9906 [] word = "world" -> 1917 [] word = "." -> 13

encode(pageText) == [i \in DOMAIN pageText |-> TokenId(pageText[i])]

\* tokens.join(' ').replace(/ ([.,;:!?])/g, '$1'), as the words of the result:
\* the tokens are numbers, join writes them in decimal, and the replacement
\* only takes away blanks
decode(tokens) == [i \in DOMAIN tokens |-> ToString(tokens[i])]

\* Math.ceil(targetChunkSize * overlap)
overlapTokensCeil(size, fraction) == -((-(size * fraction.num)) \div fraction.den)

\* Math.floor(targetChunkSize * overlap)
overlapTokens(size, fraction) == (size * fraction.num) \div fraction.den

\* a plausible slip: the overlap is added to the step
NextStartPastOverlap(startTokenIndex, size, fraction) ==
  startTokenIndex + size + overlapTokens(size, fraction)

\* startTokenIndex += targetChunkSize - overlapTokens
NextStart(startTokenIndex, size, fraction) ==
  startTokenIndex + size - overlapTokens(size, fraction)

\* the while loop over one page, from startTokenIndex on
RECURSIVE PageChunks(_, _, _, _, _)
PageChunks(tokens, pageIndex, size, fraction, startTokenIndex) ==
  IF startTokenIndex >= Len(tokens) THEN <<>>
  ELSE LET endTokenIndex == Min(startTokenIndex + size, Len(tokens))
           chunkTokens == SubSeq(tokens, startTokenIndex + 1, endTokenIndex)
       IN <<[text |-> decode(chunkTokens),
             page |-> pageIndex + 1,
             tokenCount |-> Len(chunkTokens),
             startIndex |-> startTokenIndex,
             endIndex |-> endTokenIndex - 1]>>
          \o PageChunks(tokens, pageIndex, size, fraction,
                        NextStart(startTokenIndex, size, fraction))

\* pages.forEach: a page without a word is skipped
RECURSIVE splitPages(_, _, _, _)
splitPages(pages, pageIndex, size, fraction) ==
  IF pageIndex >= Len(pages) THEN <<>>
  ELSE (IF pages[pageIndex + 1] = <<>> THEN <<>>
        ELSE PageChunks(encode(pages[pageIndex + 1]), pageIndex, size, fraction, 0))
       \o splitPages(pages, pageIndex + 1, size, fraction)

splitTextIntoChunks(pages, size, fraction) == splitPages(pages, 0, size, fraction)

\* ------------------------------------------- specification of the chunker
PageOf(n) == [i \in 1..n |-> Words[((i - 1) % Len(Words)) + 1]]

Texts == UNION {[1..k -> {PageOf(n) : n \in 0..MaxPageTokens}] : k \in 0..MaxPages}

\* overlap fractions of [0, 1); 1/5 is ragConfig.chunkOverlap
Overlaps ==
  {[num |-> 0, den |-> 1], [num |-> 1, den |-> 5], [num |-> 1, den |-> 2],
   [num |-> 3, den |-> 4], [num |-> 9, den |-> 10]}

SplitInit ==
  /\ pageTexts \in Texts
  /\ targetChunkSize \in 1..MaxTarget
  /\ overlap \in Overlaps
  /\ splitChunks = <<>>
  /\ cursor = [pageIndex |-> 0, startTokenIndex |-> 0]
  /\ documents = NoDocuments
  /\ folders = NoFolders
  /\ chunks = <<>>
  /\ searchInvoked = FALSE
  /\ searchOptions = NoSearch
  /\ responseText = <<>>
  /\ relevantDocuments = <<>>
  /\ citations = <<>>
  /\ error = ""
  /\ PipeIdle
  /\ HistIdle
  /\ pc = "splitting"

Split ==
  /\ pc = "splitting"
  /\ splitChunks' = splitTextIntoChunks(pageTexts, targetChunkSize, overlap)
  /\ pc' = "split"
  /\ UNCHANGED <<pageTexts, targetChunkSize, overlap, cursor, histVars, corpusVars,
                 searchVars, citeVars, pipeVars>>

SplitNext == Split

SpecSplit == SplitInit /\ [][SplitNext]_vars

\* the indices, in splitChunks, of the chunks of page p, in the order emitted
ChunksOfPage(p) == {k \in DOMAIN splitChunks : splitChunks[k].page = p}

\* C16: a page of at least one token and fewer than the target size gives
\* exactly one chunk, which covers the page from its first to its last token.
ShortPageOneChunk ==
  pc = "split" =>
    \A p \in DOMAIN pageTexts :
      (Len(pageTexts[p]) >= 1 /\ Len(pageTexts[p]) < targetChunkSize) =>
        /\ Cardinality(ChunksOfPage(p)) = 1
        /\ \A k \in ChunksOfPage(p) :
             splitChunks[k].startIndex = 0 /\ splitChunks[k].endIndex = Len(pageTexts[p]) - 1

\* the tokens chunk k shares with the chunk emitted after it
Shared(k) == splitChunks[k].endIndex - splitChunks[k + 1].startIndex + 1

\* C17: two chunks emitted one after the other for the same page share a
\* number of tokens within 1 of the target size times the overlap fraction.
OverlapBound ==
  pc = "split" =>
    \A k \in DOMAIN splitChunks :
      (k + 1 \in DOMAIN splitChunks /\ splitChunks[k + 1].page = splitChunks[k].page) =>
        /\ (Shared(k) - 1) * overlap.den <= targetChunkSize * overlap.num
        /\ (Shared(k) + 1) * overlap.den >= targetChunkSize * overlap.num

\* C18: the chunks of a page with tokens cover it without a gap: the first
\* starts at token 0, each next one starts at most one past the end of the one
\* before it, and the last ends at the last token of the page.
CoverageWithoutGaps ==
  pc = "split" =>
    \A p \in DOMAIN pageTexts :
      Len(pageTexts[p]) >= 1 =>
        /\ ChunksOfPage(p) # {}
        /\ \A k \in ChunksOfPage(p) :
             /\ k - 1 \notin ChunksOfPage(p) => splitChunks[k].startIndex = 0
             /\ k - 1 \in ChunksOfPage(p) =>
                  splitChunks[k].startIndex <= splitChunks[k - 1].endIndex + 1
             /\ k + 1 \notin ChunksOfPage(p) => splitChunks[k].endIndex = Len(pageTexts[p]) - 1

\* a second page of seven tokens has been split with target size 3 and overlap
\* 1/2 (step 2) after an empty first page: four chunks, the last one partial
CoverageWithoutGapsWitness ==
  /\ pc = "split"
  /\ Len(pageTexts) = 2 /\ pageTexts[1] = <<>> /\ Len(pageTexts[2]) = 7
  /\ targetChunkSize = 3 /\ overlap = [num |-> 1, den |-> 2]
  /\ Len(splitChunks) = 4
  /\ splitChunks[4].page = 2
  /\ splitChunks[4].startIndex = 6 /\ splitChunks[4].endIndex = 6

\* C19: the text stored for a chunk is, up to blanks, the part of the page
\* whose tokens are the chunk's window.
DecodeInvertsEncode ==
  pc = "split" =>
    \A k \in DOMAIN splitChunks :
      splitChunks[k].text =
        SubSeq(pageTexts[splitChunks[k].page],
               splitChunks[k].startIndex + 1, splitChunks[k].endIndex + 1)

\* ----------------------------------------------------- conversation history
\* Message.findAll({ ..., limit: 10 })
historyLimit == 10

\* the thread the question is asked in
AskedThread == 1

\* saveMessage: Message.create; the content of a row is written as its id
saveMessage(rows, role, threadId) ==
  Append(rows, [id |-> Len(rows) + 1, threadId |-> threadId, role |-> role])

\* LIMIT of a query ordered by createdAt ASC: the first rows
FirstRows(rows, limit) == SubSeq(rows, 1, Min(limit, Len(rows)))

\* Message.findAll({ where: { threadId }, order: [['createdAt', 'ASC']], limit: 10 })
threadHistory(rows, threadId) ==
  FirstRows(SelectSeq(rows, LAMBDA m : m.threadId = threadId), historyLimit)

\* history.map(msg => ({ role: msg.role, content: msg.content }))
formattedHistory(history) ==
  [k \in DOMAIN history |->
     [role |-> history[k].role, content |-> history[k].id, excerpts |-> FALSE,
      labels |-> <<>>]]

\* the decimal digits of a natural number, as a template literal writes it
RECURSIVE Decimal(_)
Decimal(n) ==
  IF n < 10 THEN <<ToString(n)>> ELSE Decimal(n \div 10) \o <<ToString(n % 10)>>

\* a label numbered with the array index itself
indexOrdinal(index) == index

\* ${index + 1}: the ordinal written into the label of chunks[index]
labelOrdinal(index) == index + 1

\* `[Document ${index + 1}: ${chunk.documentTitle || 'Untitled'}, Page
\* ${chunk.page || 'N/A'}]\n${chunk.content}\n` of the k-th chunk (index
\* k - 1): its text, with "x" for the title and for the page and content, and
\* what the title and the page are written as
formattedChunk(k, chunk) ==
  [text |-> <<"[Document ">> \o Decimal(labelOrdinal(k - 1)) \o <<":", "x", ",", "x">>,
   documentTitle |-> IF chunk.documentTitle = "" THEN "Untitled" ELSE chunk.documentTitle,
   page |-> IF chunk.page = Null THEN "N/A" ELSE ToString(chunk.page)]

\* chunks.map((chunk, index) => ...)
formattedChunks(passages) == [k \in DOMAIN passages |-> formattedChunk(k, passages[k])]

\* generatePrompt: the system message, and the user message with the
\* question and the document excerpts (no label when there is no chunk)
generatePrompt(question, passages) ==
  << [role |-> "system", content |-> Null, excerpts |-> FALSE, labels |-> <<>>],
     [role |-> "user", content |-> question, excerpts |-> TRUE,
      labels |-> formattedChunks(passages)] >>

\* [promptMessages[0], ...formattedHistory.slice(0, -1), promptMessages[1]]
combineMessages(prompt, formatted) ==
  <<prompt[1]>> \o SubSeq(formatted, 1, Len(formatted) - 1) \o <<prompt[2]>>

\* ---------------------------------------- specification of the history
\* the tables: rows of two threads, user and assistant taking turns in each
RowsOf(threadIds) ==
  [k \in DOMAIN threadIds |->
     [id |-> k, threadId |-> threadIds[k],
      role |-> IF Cardinality({j \in 1..k : threadIds[j] = threadIds[k]}) % 2 = 1
               THEN "user" ELSE "assistant"]]

MessageTables == {RowsOf(t) : t \in UNION {[1..n -> {1, 2}] : n \in 0..MaxMessages}}

HistInit ==
  /\ messageRows \in MessageTables
  /\ promptMessages = <<>>
  /\ documents = NoDocuments
  /\ folders = NoFolders
  /\ chunks = <<>>
  /\ searchInvoked = FALSE
  /\ searchOptions = NoSearch
  /\ responseText = <<>>
  /\ relevantDocuments = <<>>
  /\ citations = <<>>
  /\ error = ""
  /\ PipeIdle
  /\ SplitIdle
  /\ pc = "asking"

\* processMessage from the saving of the user's message to the combined
\* messages of the generative call
ComposePrompt ==
  /\ pc = "asking"
  /\ LET saved == saveMessage(messageRows, "user", AskedThread)
         history == threadHistory(saved, AskedThread)
     IN /\ messageRows' = saved
        /\ promptMessages' =
             combineMessages(generatePrompt(Len(saved), <<>>), formattedHistory(history))
  /\ pc' = "composed"
  /\ UNCHANGED <<splitVars, corpusVars, searchVars, citeVars, pipeVars>>

HistNext == ComposePrompt

SpecHistory == HistInit /\ [][HistNext]_vars

\* the turns of the thread before the question, oldest first
PriorTurns ==
  SelectSeq(SubSeq(messageRows, 1, Len(messageRows) - 1),
            LAMBDA m : m.threadId = AskedThread)

\* the messages of the prompt between its first and its last
HistorySegment == SubSeq(promptMessages, 2, Len(promptMessages) - 1)

\* C20: the prompt is the system segment, then the most recent prior turns of
\* the thread (all of them up to the maximum, which is taken to be the limit of
\* the query or one less), in their order and with their roles, then the
\* final user segment; the question is in the final user segment only.
HistoryIsMostRecent ==
  pc = "composed" =>
    LET n == Len(HistorySegment)
        prior == PriorTurns
        question == Len(messageRows)
    IN /\ promptMessages[1].role = "system"
       /\ promptMessages[Len(promptMessages)] =
            [role |-> "user", content |-> question, excerpts |-> TRUE, labels |-> <<>>]
       /\ n \in {Min(Len(prior), historyLimit), Min(Len(prior), historyLimit - 1)}
       /\ \A k \in 1..n :
            /\ HistorySegment[k].content = prior[Len(prior) - n + k].id
            /\ HistorySegment[k].role = prior[Len(prior) - n + k].role
       /\ \A k \in 1..n : HistorySegment[k].content # question

\* --------------------------------- the loops of the chunker, step by step
\* pages.forEach reaches a page without a word: the callback returns
SkipEmptyPage ==
  /\ pc = "splitting"
  /\ cursor.pageIndex < Len(pageTexts)
  /\ pageTexts[cursor.pageIndex + 1] = <<>>
  /\ cursor' = [pageIndex |-> cursor.pageIndex + 1, startTokenIndex |-> 0]
  /\ UNCHANGED <<pageTexts, targetChunkSize, overlap, splitChunks, histVars, corpusVars,
                 searchVars, citeVars, pipeVars, pc>>

\* one iteration of the while loop: the chunk from startTokenIndex is pushed
\* and startTokenIndex is moved; the loop of the page ends when it has
\* reached tokens.length
PushChunk ==
  /\ pc = "splitting"
  /\ cursor.pageIndex < Len(pageTexts)
  /\ pageTexts[cursor.pageIndex + 1] # <<>>
  /\ LET tokens == encode(pageTexts[cursor.pageIndex + 1])
         endTokenIndex == Min(cursor.startTokenIndex + targetChunkSize, Len(tokens))
         chunkTokens == SubSeq(tokens, cursor.startTokenIndex + 1, endTokenIndex)
         next == NextStart(cursor.startTokenIndex, targetChunkSize, overlap)
     IN /\ splitChunks' = Append(splitChunks,
                                 [text |-> decode(chunkTokens),
                                  page |-> cursor.pageIndex + 1,
                                  tokenCount |-> Len(chunkTokens),
                                  startIndex |-> cursor.startTokenIndex,
                                  endIndex |-> endTokenIndex - 1])
        /\ cursor' = IF next >= Len(tokens)
                     THEN [pageIndex |-> cursor.pageIndex + 1, startTokenIndex |-> 0]
                     ELSE [pageIndex |-> cursor.pageIndex, startTokenIndex |-> next]
  /\ UNCHANGED <<pageTexts, targetChunkSize, overlap, histVars, corpusVars,
                 searchVars, citeVars, pipeVars, pc>>

\* pages.forEach is over: return chunks
ReturnChunks ==
  /\ pc = "splitting"
  /\ cursor.pageIndex = Len(pageTexts)
  /\ pc' = "split"
  /\ UNCHANGED <<splitVars, histVars, corpusVars, searchVars, citeVars, pipeVars>>

LoopNext == SkipEmptyPage \/ PushChunk \/ ReturnChunks

SpecLoop == SplitInit /\ [][LoopNext]_vars

\* C29: for every text, every target size from 1 on and every overlap
\* fraction of [0, 1) the start offset strictly increases from one chunk of a
\* page to the next and stays below the length of the page, so that a page of
\* n tokens takes at most n iterations; the loops end, every page exhausted.
ChunkStartsIncrease ==
  /\ \A k \in DOMAIN splitChunks :
       /\ splitChunks[k].startIndex >= 0
       /\ splitChunks[k].startIndex < Len(pageTexts[splitChunks[k].page])
       /\ (k + 1 \in DOMAIN splitChunks /\ splitChunks[k + 1].page = splitChunks[k].page) =>
            splitChunks[k + 1].startIndex > splitChunks[k].startIndex
  /\ cursor.pageIndex < Len(pageTexts) =>
       cursor.startTokenIndex <= Len(pageTexts[cursor.pageIndex + 1])
  /\ pc = "split" =>
       /\ cursor.pageIndex = Len(pageTexts)
       /\ splitChunks = splitTextIntoChunks(pageTexts, targetChunkSize, overlap)
       /\ \A p \in DOMAIN pageTexts :
            pageTexts[p] # <<>> =>
              \E k \in ChunksOfPage(p) : splitChunks[k].endIndex = Len(pageTexts[p]) - 1

\* a page of seven tokens has been split with target size 1 and overlap 9/10
\* (the step is 1 token): seven chunks, one from every offset 0..6
ChunkStartsIncreaseWitness ==
  /\ pc = "split"
  /\ pageTexts = <<PageOf(7)>>
  /\ targetChunkSize = 1 /\ overlap = [num |-> 9, den |-> 10]
  /\ Len(splitChunks) = 7
  /\ \A k \in 1..7 : splitChunks[k].startIndex = k - 1

\* ------------------------------------------ specification of the prompt
\* the text of an answer that cites passages by copying the opening of their
\* labels from the prompt, in the order `cited`
RECURSIVE Echo(_, _)
Echo(labels, cited) ==
  IF cited = <<>> THEN <<>>
  ELSE SubSeq(labels[Head(cited)].text, 1, Len(labels[Head(cited)].text) - 3)
         \o <<"x">> \o Echo(labels, Tail(cited))

PromptInit ==
  /\ relevantDocuments \in PassageLists
  /\ responseText = <<>>
  /\ citations = <<>>
  /\ error = ""
  /\ pc = "prompting"
  /\ documents = NoDocuments
  /\ folders = NoFolders
  /\ chunks = <<>>
  /\ searchInvoked = FALSE
  /\ searchOptions = NoSearch
  /\ PipeIdle
  /\ SplitIdle
  /\ HistIdle

\* processMessage: generatePrompt(userMessage, relevantDocuments)
AssemblePrompt ==
  /\ pc = "prompting"
  /\ promptMessages' = generatePrompt(AskedThread, relevantDocuments)
  /\ pc' = "prompted"
  /\ UNCHANGED <<splitVars, messageRows, corpusVars, searchVars, citeVars, pipeVars>>

\* the generative capability answers, citing up to MaxCited labels of the
\* prompt
AnswerFromPrompt ==
  /\ pc = "prompted"
  /\ \E cited \in SeqsUpTo(DOMAIN promptMessages[2].labels, MaxCited) :
        responseText' = Echo(promptMessages[2].labels, cited)
  /\ pc' = "extracting"
  /\ UNCHANGED <<splitVars, histVars, corpusVars, searchVars, relevantDocuments,
                 citations, error, pipeVars>>

PromptNext == AssemblePrompt \/ AnswerFromPrompt \/ ExtractCitations

SpecPrompt == PromptInit /\ [][PromptNext]_vars

\* the ordinals of the passages cited in the answer text
CitedOrdinals ==
  {n \in DOMAIN relevantDocuments :
     \E i \in DOMAIN responseText : OrdinalAt(responseText, i, ":") = n}

\* C21: for a non-empty passage list the prompt begins with the system
\* segment and its user segment labels the passages in the order of the list,
\* the i-th with the ordinal i, its title and its page; the passages cited in
\* an answer by the ordinals of the prompt are the passages the extractor
\* returns citations of.
PromptOrdinalsResolve ==
  (pc # "prompting" /\ relevantDocuments # <<>>) =>
    LET labels == promptMessages[Len(promptMessages)].labels
    IN /\ promptMessages[1].role = "system"
       /\ Len(labels) = Len(relevantDocuments)
       /\ \A k \in DOMAIN labels :
            /\ OrdinalAt(labels[k].text, 1, ":") = k
            /\ relevantDocuments[k].documentTitle # "" =>
                 labels[k].documentTitle = relevantDocuments[k].documentTitle
            /\ relevantDocuments[k].page # Null =>
                 labels[k].page = ToString(relevantDocuments[k].page)
       /\ pc # "errored"
       /\ pc = "done" =>
            {citations[c].chunkId : c \in DOMAIN citations} =
              {relevantDocuments[n].id : n \in CitedOrdinals}

\* an answer citing the second label and then the first has been processed:
\* its citations are those of the second and of the first passage
PromptOrdinalsResolveWitness ==
  /\ pc = "done"
  /\ Len(relevantDocuments) = 2
  /\ responseText = Echo(promptMessages[2].labels, <<2, 1>>)
  /\ Len(citations) = 2
  /\ citations[1].chunkId = relevantDocuments[2].id
  /\ citations[2].chunkId = relevantDocuments[1].id

\* ---------------------------------------------------------------- ingestion
\* what the external embedding capability returns for the text of a chunk
ChunkDir == 1

\* the vectors Math.random is taken to produce during ingestion
IngestRandoms == {3}

\* status: { type: ENUM(...), defaultValue: 'ready' }
defaultStatus == "ready"

\* ragConfig.chunkSize and ragConfig.chunkOverlap
chunkSize == 800

chunkOverlap == [num |-> 1, den |-> 5]

\* chunk.startIndex of the k-th chunk of a text of one page: every run of a
\* document splits the same stored file in the same way
taskStartIndex(k) == (k - 1) * (chunkSize - overlapTokens(chunkSize, chunkOverlap))

IngestDocuments ==
  [d \in {1, 2} |->
     [orgId |-> 1, folderId |-> 1, tags |-> {}, status |-> "pending",
      title |-> "Report", deletedAt |-> Null]]

\* a chunk task of processDocument: "embedding" (generateEmbedding awaited),
\* "creating" (Chunk.create awaited), "created" or "rejected"
NewTask == [state |-> "embedding", embedding |-> Null, apiOk |-> TRUE]

IngestInit ==
  /\ documents = IngestDocuments
  /\ folders = OneFolder
  /\ chunks = <<>>
  /\ searchInvoked = FALSE
  /\ searchOptions = NoSearch
  /\ responseText = <<>>
  /\ relevantDocuments = <<>>
  /\ citations = <<>>
  /\ error = ""
  /\ PipeIdle
  /\ SplitIdle
  /\ HistIdle
  /\ pc = "idle"

SetStatus(d, status) == documents' = [documents EXCEPT ![d].status = status]

\* completeUpload up to the chunk tasks of processDocument: the document is
\* not ready, its status becomes processing, the text is split into n chunks
\* and every chunk task is started
BeginRun ==
  \E d \in DOMAIN documents, n \in 0..MaxChunksPerRun :
    /\ Len(runs) < MaxRuns
    /\ documents[d].deletedAt = Null
    /\ documents[d].status # "ready"
    /\ SetStatus(d, "processing")
    /\ runs' = Append(runs, [documentId |-> d, handler |-> "completeUpload",
                             pc |-> "awaiting", tasks |-> [k \in 1..n |-> NewTask]])
    /\ UNCHANGED <<splitVars, histVars, chunks, folders, searchVars, citeVars, query, queryEmbedding,
                   embeddingFailed, generation, messages, pc>>

\* uploadDocument up to createDocument: Document.create is given no status,
\* so the row gets the default of the column
createDocument ==
  \E userId \in Users :
    /\ UserOrg(userId) # Null   \* orgId of a document: allowNull: false
    /\ Len(runs) < MaxRuns
    /\ LET id == Cardinality(DOMAIN documents) + 1
       IN /\ documents' =
               [d \in DOMAIN documents \cup {id} |->
                  IF d = id
                  THEN [orgId |-> UserOrg(userId), folderId |-> Null, tags |-> {},
                        status |-> defaultStatus, title |-> "Report", deletedAt |-> Null]
                  ELSE documents[d]]
          /\ runs' = Append(runs, [documentId |-> id, handler |-> "uploadDocument",
                                   pc |-> "created", tasks |-> <<>>])
    /\ UNCHANGED <<splitVars, histVars, chunks, folders, searchVars, citeVars, query, queryEmbedding,
                   embeddingFailed, generation, messages, pc>>

\* uploadDocument goes on: processDocument sets the status processing, splits
\* the text into n chunks and starts every chunk task (a document deleted in
\* between is not found: the run fails at once)
BeginUploadRun ==
  \E r \in DOMAIN runs, n \in 0..MaxChunksPerRun :
    /\ runs[r].pc = "created"
    /\ IF documents[runs[r].documentId].deletedAt = Null
       THEN /\ SetStatus(runs[r].documentId, "processing")
            /\ runs' = [runs EXCEPT ![r].pc = "awaiting",
                                    ![r].tasks = [k \in 1..n |-> NewTask]]
       ELSE /\ documents' = documents
            /\ runs' = [runs EXCEPT ![r].pc = "failed"]
    /\ UNCHANGED <<splitVars, histVars, chunks, folders, searchVars, citeVars, query, queryEmbedding,
                   embeddingFailed, generation, messages, pc>>

\* generateEmbedding(chunk.text) returns to chunk task k of run r
EmbedChunk ==
  \E r \in DOMAIN runs, apiFailed \in BOOLEAN, random \in IngestRandoms :
    \E k \in DOMAIN runs[r].tasks :
      /\ runs[r].tasks[k].state = "embedding"
      /\ runs' = [runs EXCEPT ![r].tasks[k] =
                    [state |-> "creating",
                     embedding |-> generateEmbedding(ChunkDir, ~apiFailed, random),
                     apiOk |-> ~apiFailed]]
      /\ UNCHANGED <<splitVars, histVars, corpusVars, searchVars, citeVars, query, queryEmbedding,
                     embeddingFailed, generation, messages, pc>>

\* Chunk.create resolves for chunk task k of run r
CreateChunk ==
  \E r \in DOMAIN runs :
    \E k \in DOMAIN runs[r].tasks :
      /\ runs[r].tasks[k].state = "creating"
      /\ chunks' = Append(chunks, [id |-> Len(chunks) + 1,
                                   documentId |-> runs[r].documentId,
                                   embedding |-> runs[r].tasks[k].embedding,
                                   page |-> 1,
                                   startIndex |-> taskStartIndex(k)])
      /\ runs' = [runs EXCEPT ![r].tasks[k].state = "created"]
      /\ UNCHANGED <<splitVars, histVars, documents, folders, searchVars, citeVars, query, queryEmbedding,
                     embeddingFailed, generation, messages, pc>>

\* Chunk.create rejects for chunk task k of run r; the task rethrows
CreateChunkFails ==
  \E r \in DOMAIN runs :
    \E k \in DOMAIN runs[r].tasks :
      /\ runs[r].tasks[k].state = "creating"
      /\ runs' = [runs EXCEPT ![r].tasks[k].state = "rejected"]
      /\ UNCHANGED <<splitVars, histVars, corpusVars, searchVars, citeVars, query, queryEmbedding,
                     embeddingFailed, generation, messages, pc>>

\* Promise.all resolves: every task has created its chunk; status ready
AllChunksDone ==
  \E r \in DOMAIN runs :
    /\ runs[r].pc = "awaiting"
    /\ \A k \in DOMAIN runs[r].tasks : runs[r].tasks[k].state = "created"
    /\ SetStatus(runs[r].documentId, "ready")
    /\ runs' = [runs EXCEPT ![r].pc = "processed"]
    /\ UNCHANGED <<splitVars, histVars, chunks, folders, searchVars, citeVars, query, queryEmbedding,
                   embeddingFailed, generation, messages, pc>>

\* Promise.all rejects with the first rejected task: the catch block sets the
\* status error (when findByPk still finds the document) and rethrows;
\* completeUpload answers 500
SomeChunkRejected ==
  \E r \in DOMAIN runs :
    /\ runs[r].pc = "awaiting"
    /\ \E k \in DOMAIN runs[r].tasks : runs[r].tasks[k].state = "rejected"
    /\ IF documents[runs[r].documentId].deletedAt = Null
       THEN SetStatus(runs[r].documentId, "error")
       ELSE documents' = documents
    /\ runs' = [runs EXCEPT ![r].pc = "failed"]
    /\ UNCHANGED <<splitVars, histVars, chunks, folders, searchVars, citeVars, query, queryEmbedding,
                   embeddingFailed, generation, messages, pc>>

\* completeUpload after processDocument has resolved: status ready, reply 200
FinishUpload ==
  \E r \in DOMAIN runs :
    /\ runs[r].pc = "processed"
    /\ runs[r].handler = "completeUpload"
    /\ SetStatus(runs[r].documentId, "ready")
    /\ runs' = [runs EXCEPT ![r].pc = "completed"]
    /\ UNCHANGED <<splitVars, histVars, chunks, folders, searchVars, citeVars, query, queryEmbedding,
                   embeddingFailed, generation, messages, pc>>

IngestNext ==
  \/ BeginRun
  \/ createDocument
  \/ BeginUploadRun
  \/ EmbedChunk
  \/ CreateChunk
  \/ CreateChunkFails
  \/ AllChunksDone
  \/ SomeChunkRejected
  \/ FinishUpload

SpecIngest == IngestInit /\ [][IngestNext]_vars

\* C5: a run sets its document ready only after the embedding call and the
\* insertion of every chunk have succeeded (so that a run in which either
\* failed for some chunk does not set it ready).
ReadyOnlyAfterAllChunksSucceeded ==
  \A r \in DOMAIN runs :
    runs[r].pc \in {"processed", "completed"} =>
      \A k \in DOMAIN runs[r].tasks :
        runs[r].tasks[k].state = "created" /\ runs[r].tasks[k].apiOk

\* the runs of document d in which chunking has started
RunsOf(d) == {r \in DOMAIN runs : runs[r].documentId = d /\ runs[r].pc # "created"}

\* C15: a document for which chunking has not started is pending, and a
\* document is ready only when a run for it has embedded and indexed its chunks.
StatusLifecycle ==
  \A d \in DOMAIN documents :
    /\ RunsOf(d) = {} => documents[d].status = "pending"
    /\ documents[d].status = "ready" =>
         \E r \in RunsOf(d) : runs[r].pc \in {"processed", "completed"}

\* the runs that have set the terminal status of their document
Terminated(r) == runs[r].pc \in {"processed", "completed", "failed"}

\* C25: once a run has set its document ready or error, no chunk task of that
\* run inserts a further chunk row.
NoInsertAfterTerminalStatus ==
  [][\A r \in DOMAIN runs :
       Terminated(r) =>
         \A k \in DOMAIN runs[r].tasks :
           runs'[r].tasks[k].state = "created" => runs[r].tasks[k].state = "created"]_vars

\* C26: whatever runs a document has had, one after the other or at once, no
\* two chunk rows of it have the same page and start offset.
NoDuplicateChunkRows ==
  \A i \in DOMAIN chunks : \A j \in DOMAIN chunks :
    (i # j /\ chunks[i].documentId = chunks[j].documentId) =>
      <<chunks[i].page, chunks[i].startIndex>> # <<chunks[j].page, chunks[j].startIndex>>

\* ----------------------------- ingestion with searches and deletions going on
\* findRelevantDocuments of a user of organisation 1, without folder or tags
SearchIndex ==
  /\ pc = "idle"
  /\ LET options == [embedding |-> QuestionDir,
                     limit |-> maxChunks,
                     threshold |-> similarityThreshold,
                     documentIds |-> {},
                     orgId |-> UserOrg(1)]
     IN /\ searchInvoked' = TRUE
        /\ searchOptions' = options
        /\ relevantDocuments' \in findSimilar(QuestionDir, options)
  /\ pc' = "done"
  /\ UNCHANGED <<splitVars, histVars, corpusVars, responseText, citations, error, pipeVars>>

\* one document, created by getPresignedUrl and not yet ingested
LiveDocuments == [d \in {1} |-> IngestDocuments[d]]

LiveInit ==
  /\ documents = LiveDocuments
  /\ folders = OneFolder
  /\ chunks = <<>>
  /\ searchInvoked = FALSE
  /\ searchOptions = NoSearch
  /\ responseText = <<>>
  /\ relevantDocuments = <<>>
  /\ citations = <<>>
  /\ error = ""
  /\ PipeIdle
  /\ SplitIdle
  /\ HistIdle
  /\ pc = "idle"

\* the runs are those of completeUpload, with a search and the deletion of
\* the document at any moment between their steps
LiveNext ==
  \/ BeginRun
  \/ EmbedChunk
  \/ CreateChunk
  \/ CreateChunkFails
  \/ AllChunksDone
  \/ SomeChunkRejected
  \/ FinishUpload
  \/ SearchIndex
  \/ deleteDocument

SpecLive == LiveInit /\ [][LiveNext]_vars

\* C24: every passage of a search made while ingestion runs are going on is of
\* a document whose status is ready when the search is made.
SearchOnlyReadyDocuments ==
  [][(~searchInvoked /\ searchInvoked') =>
       \A k \in DOMAIN relevantDocuments' :
         documents[relevantDocuments'[k].documentId].status = "ready"]_vars

\* the ingestion of document d is over: every run of it has returned and
\* every chunk task of these runs has settled
IngestionOver(d) ==
  \A r \in DOMAIN runs :
    runs[r].documentId = d =>
      /\ Terminated(r)
      /\ \A k \in DOMAIN runs[r].tasks : runs[r].tasks[k].state \in {"created", "rejected"}

\* C27: when a document has been deleted and its ingestion is over, the index
\* holds no chunk of it.
NoChunkOfDeletedDocument ==
  \A d \in DOMAIN documents :
    (documents[d].deletedAt # Null /\ IngestionOver(d)) =>
      \A i \in DOMAIN chunks : chunks[i].documentId # d

\* ------------------------------------------------- claims on the query path
\* retrieval has returned to the handler
Retrieved == pc \in {"generating", "extracting", "done"} \/ generation = "failed"

LastMessage == messages[Len(messages)]

\* C2: when retrieval returns zero passages (for a question whose embedding call
\* succeeded) the pipeline is Done at once, with the fixed insufficient-information
\* answer and no citation, and the generative call is not made for that query.
NoContextSkipsGeneration ==
  (Retrieved /\ relevantDocuments = <<>> /\ ~embeddingFailed) =>
    /\ pc = "done"
    /\ generation = "none"
    /\ citations = <<>>
    /\ LastMessage.kind = "insufficient"

\* C3: a query whose external embedding call failed (and for which no later
\* database call fails) ends Errored with EmbeddingUnavailable; the index is not
\* searched with a substitute vector and no answer is produced.
EmbeddingFailureSurfaces ==
  (embeddingFailed /\ pc \in {"done", "errored"} /\ error # "SequelizeDatabaseError") =>
    /\ pc = "errored"
    /\ error = "EmbeddingUnavailable"
    /\ ~searchInvoked
    /\ generation = "none"

\* C4: a query whose generative call failed (its embedding call having
\* succeeded) ends with an error for the caller, and no message carrying
\* citations is returned or stored for it.
GenerationFailureIsError ==
  (generation = "failed" /\ pc \in {"done", "errored"} /\ ~embeddingFailed) =>
    /\ pc = "errored"
    /\ error # ""
    /\ citations = <<>>
    /\ \A m \in DOMAIN messages : messages[m].citations = <<>>

\* the documents each filter of the retriever's options resolves to
InFolderOfOrg(q) ==
  {d \in DOMAIN documents :
     documents[d].orgId = UserOrg(q.userId) /\ documents[d].folderId = OptionFolder(q)}

WithSomeTagOfOrg(q) ==
  {d \in DOMAIN documents :
     documents[d].orgId = UserOrg(q.userId) /\ documents[d].tags \cap OptionTags(q) # {}}

ZeroScope(q) ==
  \/ OptionFolder(q) # Null /\ InFolderOfOrg(q) = {}
  \/ OptionTags(q) # {} /\ WithSomeTagOfOrg(q) = {}
  \/ /\ OptionFolder(q) # Null /\ OptionTags(q) # {}
     /\ InFolderOfOrg(q) \cap WithSomeTagOfOrg(q) = {}

NoMessageInForeignThread ==
  (query.handler = "processMessage" /\ ~OwnsThread(query.userId, query.threadId)) =>
    /\ pc = "errored"
    /\ error # ""
    /\ \A m \in DOMAIN messages : messages[m].threadId # query.threadId

\* C22: every passage retrieve returns belongs to a document of the
\* organisation of the requesting user, also for a user whose orgId is unset,
\* and, when a folder or tag filter is given, to a document of the resolved
\* allow-list (the case shown is a question whose embedding call succeeded).
PassagesWithinOrganisation ==
  (Retrieved /\ ~embeddingFailed) =>
    \A k \in DOMAIN relevantDocuments :
      LET d == relevantDocuments[k].documentId
      IN /\ documents[d].orgId = UserOrg(query.userId)
         /\ (OptionFolder(query) # Null \/ OptionTags(query) # {}) =>
              d \in ResolveScope(UserOrg(query.userId), OptionFolder(query),
                                 OptionTags(query)).documentIds

\* C9: with a tag filter, the allow-list of the search is exactly the documents
\* of the organisation (of the folder too, when one is given) that bear all of
\* the requested tags (whatever vector the search is made with: the case shown
\* is a question whose embedding call succeeded).
TagFilterRequiresAllTags ==
  (searchInvoked /\ OptionTags(query) # {} /\ ~embeddingFailed) =>
    searchOptions.documentIds =
      {d \in DOMAIN documents :
         /\ documents[d].orgId = UserOrg(query.userId)
         /\ OptionFolder(query) # Null => documents[d].folderId = OptionFolder(query)
         /\ OptionTags(query) \subseteq documents[d].tags}

\* C10: with a folder or tag filter, every document of the allow-list passed to
\* the search has status ready (the case shown is a question whose embedding
\* call succeeded).
ScopeOnlyReadyDocuments ==
  (searchInvoked /\ (OptionFolder(query) # Null \/ OptionTags(query) # {}) /\ ~embeddingFailed) =>
    \A d \in searchOptions.documentIds : documents[d].status = "ready"

====
